---------------------------- MODULE Spec2Model ----------------------------
(***************************************************************************)
(* A model of fee.py (fileless-elf-exec): the CodeGenerator facade, its    *)
(* three dialect emitters (_Python, _Perl, _Ruby), the e_machine reader,   *)
(* the syscall table and main().                                           *)
(*                                                                         *)
(* Text is modelled as TLA+ strings, character for character.  Python's    *)
(* None is the empty set and an int n is the set {n}, so that a value that *)
(* is "None or an int" has one type.  A value that is "None or an object"  *)
(* is the empty sequence or a one-element sequence.                        *)
(***************************************************************************)
EXTENDS Integers, Sequences, FiniteSets

(***************************************************************************)
(* Bounds of the model.                                                    *)
(***************************************************************************)
\* wrap widths 0..MaxWrap are tried by the add_elf specification, and main()
\* is run with -w 0 and -w MaxWrap
MaxWrap == 6
\* argument strings of at most MaxArgLen characters are tried by the
\* add_call_elf specification
MaxArgLen == 3

(***************************************************************************)
(* Python values and built-ins used by the source.                         *)
(***************************************************************************)
None == {}

Some(n) == {n}

Val(v) == CHOOSE n \in v : TRUE

\* Python truthiness of a value that is None or an int: "if x" / "not x"
truthy(v) == v # None /\ v # Some(0)

SetMin(S) == CHOOSE x \in S : \A y \in S : x <= y

SetMax(S) == CHOOSE x \in S : \A y \in S : x >= y

Char(s, i) == SubSeq(s, i, i)

\* s[i:j] for 0 <= i and 0 <= j, clamped to the string as Python does
Slice(s, i, j) ==
    LET hi == IF j < Len(s) THEN j ELSE Len(s)
    IN  IF i >= hi THEN "" ELSE SubSeq(s, i + 1, hi)

\* str.replace(old, new) for a one-character old (every use in the source):
\* the text between the occurrences of old, with new in place of each
RECURSIVE replace_at(_, _, _, _)
replace_at(s, at, new, from) ==
    IF at = {} THEN SubSeq(s, from, Len(s))
    ELSE LET i == SetMin(at)
         IN  SubSeq(s, from, i - 1) \o new \o replace_at(s, at \ {i}, new, i + 1)

replace(s, old, new) ==
    replace_at(s, {i \in 1..Len(s) : Char(s, i) = old}, new, 1)

\* characters str.strip() and str.split() treat as whitespace
Whitespace == {" ", "\t", "\n", "\r", "\f"}

strip(s) ==
    LET keep == {i \in 1..Len(s) : Char(s, i) \notin Whitespace}
    IN  IF keep = {} THEN "" ELSE SubSeq(s, SetMin(keep), SetMax(keep))

\* str.split() with no argument: the maximal runs of non-whitespace
RECURSIVE split(_)
split(s) ==
    LET keep == {i \in 1..Len(s) : Char(s, i) \notin Whitespace}
    IN  IF keep = {} THEN <<>>
        ELSE LET b  == SetMin(keep)
                 ws == {i \in b..Len(s) : Char(s, i) \in Whitespace}
                 e  == IF ws = {} THEN Len(s) ELSE SetMin(ws) - 1
             IN  <<SubSeq(s, b, e)>> \o split(SubSeq(s, e + 1, Len(s)))

\* sep.join(parts)
RECURSIVE join(_, _)
join(sep, parts) ==
    IF Len(parts) = 0 THEN ""
    ELSE IF Len(parts) = 1 THEN parts[1]
    ELSE parts[1] \o sep \o join(sep, Tail(parts))

\* str.lower() on ASCII text
UpperCase == "ABCDEFGHIJKLMNOPQRSTUVWXYZ"

LowerCase == "abcdefghijklmnopqrstuvwxyz"

RECURSIVE lower(_)
lower(s) ==
    IF Len(s) = 0 THEN ""
    ELSE LET c   == Char(s, 1)
             pos == {i \in 1..Len(UpperCase) : Char(UpperCase, i) = c}
         IN  (IF pos = {} THEN c ELSE Char(LowerCase, Val(pos)))
                 \o lower(SubSeq(s, 2, Len(s)))

\* str(n) of an int, and of None, as an f-string formats it
Digits == "0123456789"

RECURSIVE str_nat(_)
str_nat(n) ==
    IF n < 10 THEN Char(Digits, n + 1)
    ELSE str_nat(n \div 10) \o Char(Digits, (n % 10) + 1)

format(v) ==
    IF v = None THEN "None"
    ELSE IF Val(v) < 0 THEN "-" \o str_nat(0 - Val(v))
    ELSE str_nat(Val(v))

\* base64.b64encode of a sequence of bytes
B64Alphabet ==
    "ABCDEFGHIJKLMNOPQRSTUVWXYZabcdefghijklmnopqrstuvwxyz0123456789+/"

B64Char(n) == Char(B64Alphabet, n + 1)

RECURSIVE b64encode(_)
b64encode(b) ==
    IF Len(b) = 0 THEN ""
    ELSE IF Len(b) = 1 THEN
        B64Char(b[1] \div 4) \o B64Char((b[1] % 4) * 16) \o "=="
    ELSE IF Len(b) = 2 THEN
        B64Char(b[1] \div 4) \o B64Char((b[1] % 4) * 16 + b[2] \div 16)
            \o B64Char((b[2] % 16) * 4) \o "="
    ELSE
        B64Char(b[1] \div 4) \o B64Char((b[1] % 4) * 16 + b[2] \div 16)
            \o B64Char((b[2] % 16) * 4 + b[3] \div 64) \o B64Char(b[3] % 64)
            \o b64encode(SubSeq(b, 4, Len(b)))

\* repr() of a bytes object holding base64 text (no character needs escaping)
bytes_repr(text) == "b'" \o text \o "'"

\* [encoded[i : i + chars] for i in range(0, length, chars)]
chunks(encoded, chars) ==
    [k \in 1..((Len(encoded) + chars - 1) \div chars) |->
        Slice(encoded, (k - 1) * chars, k * chars)]

(***************************************************************************)
(* An ELF file is a record: bytes, the file's bytes (the model keeps files *)
(* of at most 20 bytes, the part main() reads), and compressed, the stream *)
(* zlib.compress yields for the file (zlib itself is not modelled).        *)
(***************************************************************************)
zlib_compress(elf, level) == elf.compressed

\* CodeGenerator._prepare_elf, for the compression level of the facade
_prepare_elf(compression_level, elf) == b64encode(zlib_compress(elf, compression_level))

\* self.prep_elf, the facade's bound _prepare_elf an emitter instance keeps:
\* the instance's prep_elf field holds the facade's compression level
prep_elf(self, elf) == _prepare_elf(self.prep_elf, elf)

(***************************************************************************)
(* The dialect emitters.  An emitter instance is a record                  *)
(*   [cls, output, prep_elf, wrap, syscall];                               *)
(* a constructor returns [raised, self]: raised is the exception message   *)
(* ("" when none is raised) and self the instance, if one was built.       *)
(***************************************************************************)
PerlNoSyscall ==
    "Perl generator cannot resolve the syscall using libc, specify a target architecture"

RubyNoSyscall ==
    "Ruby generator cannot resolve the syscall using libc, specify a target architecture"

\* the wrap step shared by the three add_elf methods: "wrap if necessary"
wrap_encoded(encoded, wrap, sep) ==
    IF wrap > 3
    THEN join(sep, chunks(encoded, wrap - 3))
    ELSE encoded

\* ---- CodeGenerator._Perl
\* Perl_init without its guard on outer.syscall: the constructor of a Perl
\* emitter that accepts dynamic resolution, as _Python.__init__ does
Perl_init_unguarded(outer) ==
    [raised |-> "",
     self   |-> <<[cls |-> "Perl", output |-> "", prep_elf |-> outer.compression_level,
                   wrap |-> outer.wrap, syscall |-> outer.syscall]>>]

Perl_init(outer) ==
    IF ~truthy(outer.syscall)
    THEN [raised |-> PerlNoSyscall, self |-> <<>>]
    ELSE [raised |-> "",
          self   |-> <<[cls |-> "Perl", output |-> "", prep_elf |-> outer.compression_level,
                        wrap |-> outer.wrap, syscall |-> outer.syscall]>>]

Perl_with_command(self, path) ==
    LET escaped == replace(replace(self.output, "\"", "\\\""), "$", "\\$")
    IN  path \o " -e \"" \o escaped \o "\""

Perl_add(self, line) == [self EXCEPT !.output = @ \o line \o ";\n"]

Perl_add_header(self) ==
    Perl_add(Perl_add(self, "use MIME::Base64"), "use Compress::Zlib")

Perl_add_elf(self, elf) ==
    LET encoded == wrap_encoded(prep_elf(self, elf), self.wrap, "'.\n'")
    IN  Perl_add(Perl_add(self, "$c = decode_base64(''.\n'" \o encoded \o "')"),
                 "$e = uncompress($c)")

Perl_add_dump_elf(self) ==
    LET s1 == Perl_add(self, "$n = ''")
        s2 == Perl_add(s1, "$f = syscall(" \o format(self.syscall) \o ", $n, 1)")
        s3 == Perl_add(s2, "open($h, '>&='.$f) or die")
        s4 == Perl_add(s3, "select((select($h), $|=1)[0])")
    IN  Perl_add(s4, "print $h $e")

Perl_add_call_elf(self, argv) ==
    LET s1   == Perl_add(self, "$p = \"/proc/self/fd/$f\"")
        args == replace(replace(strip(argv), "'", "\\'"), " ", "', '")
    IN  [raised |-> "", self |-> Perl_add(s1, "exec {$p} '" \o args \o "'")]

\* ---- CodeGenerator._Python
Python_init(outer) ==
    [raised |-> "",
     self   |-> <<[cls |-> "Python", output |-> "", prep_elf |-> outer.compression_level,
                   wrap |-> outer.wrap, syscall |-> outer.syscall]>>]

Python_with_command(self, path) ==
    LET escaped == replace(self.output, "\"", "\\\"")
    IN  path \o " -Bc \"" \o escaped \o "\""

Python_add(self, line) == [self EXCEPT !.output = @ \o line \o "\n"]

Python_add_header(self) ==
    LET s1 == Python_add(self, "import ctypes, os, base64, zlib")
        s2 == Python_add(s1, "l = ctypes.CDLL(None)")
    IN  IF truthy(self.syscall)
        THEN Python_add(s2, "s = l.syscall")
        ELSE Python_add(s2, "s = l.memfd_create")

Python_add_elf(self, elf) ==
    LET encoded == wrap_encoded(bytes_repr(prep_elf(self, elf)), self.wrap, "'\nb'")
    IN  Python_add(Python_add(self, "c = base64.b64decode(\n" \o encoded \o "\n)"),
                   "e = zlib.decompress(c)")

Python_add_dump_elf(self) ==
    LET s1 == IF truthy(self.syscall)
              THEN Python_add(self, "f = s(" \o format(self.syscall) \o ", '', 1)")
              ELSE Python_add(self, "f = s('', 1)")
    IN  Python_add(s1, "os.write(f, e)")

Python_add_call_elf(self, argv) ==
    LET s1   == Python_add(self, "p = '/proc/self/fd/%d' % f")
        args == replace(replace(strip(argv), "'", "\\'"), " ", "', '")
    IN  [raised |-> "", self |-> Python_add(s1, "os.execle(p, '" \o args \o "', {})")]

\* ---- CodeGenerator._Ruby
Ruby_init(outer) ==
    IF ~truthy(outer.syscall)
    THEN [raised |-> RubyNoSyscall, self |-> <<>>]
    ELSE [raised |-> "",
          self   |-> <<[cls |-> "Ruby", output |-> "", prep_elf |-> outer.compression_level,
                        wrap |-> outer.wrap, syscall |-> outer.syscall]>>]

Ruby_with_command(self, path) ==
    LET escaped == replace(replace(self.output, "\"", "\\\""), "$", "\\$")
    IN  path \o " -e \"" \o escaped \o "\""

Ruby_add(self, line) == [self EXCEPT !.output = @ \o line \o "\n"]

Ruby_add_header(self) ==
    Ruby_add(Ruby_add(self, "require 'base64'"), "require 'zlib'")

Ruby_add_elf(self, elf) ==
    LET encoded == wrap_encoded(prep_elf(self, elf), self.wrap, "'+\n'")
    IN  Ruby_add(Ruby_add(self, "c = Base64.decode64(''+\n'" \o encoded \o "')"),
                 "e = Zlib::Inflate.inflate(c)")

Ruby_add_dump_elf(self) ==
    LET s1 == Ruby_add(self, "n = ''")
        s2 == Ruby_add(s1, "f = syscall(" \o format(self.syscall) \o ", n, 1)")
        s3 == Ruby_add(s2, "io = IO.new(f)")
    IN  Ruby_add(s3, "io << e")

\* args.split()[0] raises IndexError when argv holds no token
Ruby_add_call_elf(self, argv) ==
    LET s1   == Ruby_add(self, "p = \"/proc/self/fd/#{f}\"")
        args == strip(argv)
    IN  IF split(args) = <<>>
        THEN [raised |-> "list index out of range", self |-> s1]
        ELSE LET argv0 == split(args)[1]
                 rest  == replace(replace(strip(Slice(args, Len(argv0), Len(args))),
                                          "'", "\\'"), " ", "', '")
                 head  == "exec([p, '" \o argv0 \o "']"
                 line  == (IF Len(rest) > 0 THEN head \o ", '" \o rest \o "'" ELSE head)
                              \o ")"
             IN  [raised |-> "", self |-> Ruby_add(s1, line)]

\* ---- dispatch on the emitter class (self._meta / self._generator)
Dialects == {"Python", "Perl", "Ruby"}

emitter_init(cls, outer) ==
    CASE cls = "Python" -> Python_init(outer)
      [] cls = "Perl"   -> Perl_init(outer)
      [] cls = "Ruby"   -> Ruby_init(outer)

add_header(self) ==
    CASE self.cls = "Python" -> Python_add_header(self)
      [] self.cls = "Perl"   -> Perl_add_header(self)
      [] self.cls = "Ruby"   -> Ruby_add_header(self)

add_elf(self, elf) ==
    CASE self.cls = "Python" -> Python_add_elf(self, elf)
      [] self.cls = "Perl"   -> Perl_add_elf(self, elf)
      [] self.cls = "Ruby"   -> Ruby_add_elf(self, elf)

add_dump_elf(self) ==
    CASE self.cls = "Python" -> Python_add_dump_elf(self)
      [] self.cls = "Perl"   -> Perl_add_dump_elf(self)
      [] self.cls = "Ruby"   -> Ruby_add_dump_elf(self)

add_call_elf(self, argv) ==
    CASE self.cls = "Python" -> Python_add_call_elf(self, argv)
      [] self.cls = "Perl"   -> Perl_add_call_elf(self, argv)
      [] self.cls = "Ruby"   -> Ruby_add_call_elf(self, argv)

\* the default of each emitter's with_command(path=...)
default_path(cls) ==
    CASE cls = "Python" -> "/usr/bin/env python"
      [] cls = "Perl"   -> "/usr/bin/env perl"
      [] cls = "Ruby"   -> "/usr/bin/env ruby"

emitter_with_command(self, path) ==
    CASE self.cls = "Python" -> Python_with_command(self, path)
      [] self.cls = "Perl"   -> Perl_with_command(self, path)
      [] self.cls = "Ruby"   -> Ruby_with_command(self, path)

(***************************************************************************)
(* The facade.  A CodeGenerator is a record                                *)
(*   [compression_level, wrap, syscall, _meta, _generator];                *)
(* _meta is the emitter class, _generator is <<>> (None) or <<instance>>.  *)
(* A method returns [raised, value, cg]: the exception message ("" when    *)
(* none), the value returned, and the facade after the call.               *)
(***************************************************************************)
\* CodeGenerator.__init__
CodeGenerator ==
    [compression_level |-> 9, wrap |-> 0, syscall |-> None,
     _meta |-> "Python", _generator |-> <<>>]

set_lang(cg, lang) ==
    LET l == lower(lang)
    IN  IF l \in {"py", "python"}
        THEN [raised |-> "", cg |-> [cg EXCEPT !._meta = "Python"]]
        ELSE IF l \in {"pl", "perl"}
        THEN [raised |-> "", cg |-> [cg EXCEPT !._meta = "Perl"]]
        ELSE IF l \in {"rb", "ruby"}
        THEN [raised |-> "", cg |-> [cg EXCEPT !._meta = "Ruby"]]
        ELSE [raised |-> "Language '" \o l \o "' is not implemented", cg |-> cg]

\* steps: the generation steps that ran to completion, in order
generate(cg, elf, argv) ==
    LET made == emitter_init(cg._meta, cg)
    IN  IF made.raised # ""
        THEN [raised |-> made.raised, value |-> "", cg |-> cg, steps |-> <<>>]
        ELSE LET g3   == add_dump_elf(add_elf(add_header(made.self[1]), elf))
                 last == add_call_elf(g3, argv)
                 cg2  == [cg EXCEPT !._generator = <<last.self>>]
             IN  IF last.raised # ""
                 THEN [raised |-> last.raised, value |-> "", cg |-> cg2,
                       steps |-> <<"add_header", "add_elf", "add_dump_elf">>]
                 ELSE [raised |-> "", value |-> last.self.output, cg |-> cg2,
                       steps |-> <<"add_header", "add_elf", "add_dump_elf",
                                   "add_call_elf">>]

NotYetGenerated == "Code not yet generated"

HistoryPrefix == " set +o history; unset HISTFILE; "

\* path is None or Some(string): kwargs["path"]
with_command(cg, path) ==
    IF cg._generator = <<>>
    THEN [raised |-> NotYetGenerated, value |-> "", cg |-> cg]
    ELSE LET g == cg._generator[1]
             p == IF path = None THEN default_path(g.cls) ELSE Val(path)
         IN  [raised |-> "", value |-> HistoryPrefix \o emitter_with_command(g, p),
              cg |-> cg]

(***************************************************************************)
(* _get_e_machine and the syscall table of main().                         *)
(***************************************************************************)
\* header is a sequence of bytes, elf[:20].  header[0x05] raises IndexError
\* on a header of 5 bytes or fewer, struct.unpack raises struct.error on a
\* header that is not 20 bytes long.  "16xHH" skips 16 bytes and reads two
\* 16-bit fields, e_type at offsets 16-17 and e_machine at offsets 18-19.
_get_e_machine(header) ==
    IF Len(header) <= 5
    THEN [raised |-> "index out of range", value |-> 0]
    ELSE IF Len(header) # 20
    THEN [raised |-> "unpack requires a buffer of 20 bytes", value |-> 0]
    ELSE [raised |-> "",
          value  |-> IF header[6] = 1
                     THEN header[19] + 256 * header[20]
                     ELSE 256 * header[19] + header[20]]

\* the dict.fromkeys(...) rows of syscall_numbers, in source order; a row's
\* keys are its architecture tokens (str) and its e_machine numbers (int)
SyscallRows ==
    << [tokens |-> {"autodetect", "libc"},   machines |-> {},           number |-> -1],
       [tokens |-> {"386"},                  machines |-> {3},          number |-> 356],
       [tokens |-> {"amd64"},                machines |-> {62},         number |-> 319],
       [tokens |-> {"arm"},                  machines |-> {40},         number |-> 385],
       [tokens |-> {"arm64", "riscv64"},     machines |-> {183},        number |-> 279],
       [tokens |-> {"mips"},                 machines |-> {8},          number |-> 4354],
       [tokens |-> {"mips64", "mips64le"},   machines |-> {8},          number |-> 5314],
       [tokens |-> {"ppc", "ppc64"},         machines |-> {20},         number |-> 360],
       [tokens |-> {"s390x"},                machines |-> {22},         number |-> 350],
       [tokens |-> {"sparc64"},              machines |-> {2, 18, 43},  number |-> 348] >>

\* syscall_numbers.get(key): in a dict display a later row's value replaces
\* an earlier row's value for the same key; a missing key gives None
syscall_numbers_get_token(token) ==
    LET rows == {i \in DOMAIN SyscallRows : token \in SyscallRows[i].tokens}
    IN  IF rows = {} THEN None ELSE Some(SyscallRows[SetMax(rows)].number)

syscall_numbers_get_machine(machine) ==
    LET rows == {i \in DOMAIN SyscallRows : machine \in SyscallRows[i].machines}
    IN  IF rows = {} THEN None ELSE Some(SyscallRows[SetMax(rows)].number)

\* choices=[k for k in syscall_numbers if isinstance(k, str)]
ArchitectureChoices == UNION {SyscallRows[i].tokens : i \in DOMAIN SyscallRows}

(***************************************************************************)
(* State.                                                                  *)
(*   cg            the CodeGenerator (of the caller, or of main())         *)
(*   ret           the most recent facade call: [op, path, raised, value]  *)
(*   lastGenerate  <<>> or <<the most recent generate call>>:              *)
(*                 [_meta, syscall, argv, raised, value, steps]            *)
(*   pc, cmdline, args, argv, elf, out, exc, stdout, stderr, status        *)
(*                 a run of main(): its position, the command line, the    *)
(*                 parsed namespace, the locals argv, elf and out, the     *)
(*                 exception caught, what was written to each stream, and  *)
(*                 the exit status                                         *)
(*   input, output the argument and the result of one emitter step, for    *)
(*                 the specifications of add_elf and add_call_elf          *)
(***************************************************************************)
VARIABLES cg, ret, lastGenerate,
          pc, cmdline, args, argv, elf, out, exc, stdout, stderr, status,
          input, output

vars == <<cg, ret, lastGenerate,
          pc, cmdline, args, argv, elf, out, exc, stdout, stderr, status,
          input, output>>

facadeVars == <<cg, ret, lastGenerate>>

mainVars == <<pc, cmdline, args, argv, elf, out, exc, stdout, stderr, status>>

stepVars == <<input, output>>

\* values of the variables a specification does not use
NoCall == [op |-> "__init__", path |-> None, raised |-> "", value |-> ""]

FacadeIdle == cg = CodeGenerator /\ ret = NoCall /\ lastGenerate = <<>>

MainIdle ==
    /\ pc = "idle" /\ cmdline = <<>> /\ args = <<>> /\ argv = "" /\ elf = <<>>
    /\ out = "" /\ exc = "" /\ stdout = <<>> /\ stderr = <<>> /\ status = None

StepIdle == input = <<>> /\ output = <<>>

(***************************************************************************)
(* Inputs.  The compressed streams are what zlib.compress(data, 9) yields  *)
(* for b"", b"\x00" and b"\x7fE": 8, 9 and 10 bytes, so that the base64    *)
(* text ends in "=", in no padding and in "==".                            *)
(***************************************************************************)
CompressedStreams ==
    { <<120, 218, 3, 0, 0, 0, 0, 1>>,
      <<120, 218, 99, 0, 0, 0, 1, 0, 1>>,
      <<120, 218, 171, 119, 5, 0, 1, 69, 0, 197>> }

\* a 20-byte ELF header prefix with EI_DATA (offset 5) and the two bytes of
\* e_machine (offsets 18 and 19) set
Header(ei_data, b18, b19) ==
    [i \in 1..20 |-> CASE i = 1  -> 127
                       [] i = 2  -> 69
                       [] i = 3  -> 76
                       [] i = 4  -> 70
                       [] i = 6  -> ei_data
                       [] i = 19 -> b18
                       [] i = 20 -> b19
                       [] OTHER  -> 0]

(***************************************************************************)
(* Spec: a caller drives one CodeGenerator through any sequence of         *)
(* set_lang, generate and with_command calls and syscall assignments.      *)
(***************************************************************************)
LangInputs == {"py", "Perl", "RUBY", "lua"}

SyscallInputs == {None, Some(0), Some(-1), Some(319)}

ArgvInputs == {"x y", " "}

PathInputs == {None, Some("/bin/i")}

FacadeElf == [bytes |-> <<>>, compressed |-> <<120, 218, 3, 0, 0, 0, 0, 1>>]

Init == FacadeIdle /\ MainIdle /\ StepIdle

SetLang(lang) ==
    LET r == set_lang(cg, lang)
    IN  /\ cg' = r.cg
        /\ ret' = [op |-> "set_lang", path |-> None, raised |-> r.raised, value |-> ""]
        /\ UNCHANGED <<lastGenerate, mainVars, stepVars>>

\* code_generator.syscall = v
AssignSyscall(v) ==
    /\ cg' = [cg EXCEPT !.syscall = v]
    /\ UNCHANGED <<ret, lastGenerate, mainVars, stepVars>>

Generate(e, a) ==
    LET r == generate(cg, e, a)
    IN  /\ cg' = r.cg
        /\ ret' = [op |-> "generate", path |-> None, raised |-> r.raised,
                   value |-> r.value]
        /\ lastGenerate' = <<[_meta |-> cg._meta, syscall |-> cg.syscall,
                              argv |-> a, raised |-> r.raised,
                              value |-> r.value, steps |-> r.steps]>>
        /\ UNCHANGED <<mainVars, stepVars>>

WithCommand(path) ==
    LET r == with_command(cg, path)
    IN  /\ cg' = r.cg
        /\ ret' = [op |-> "with_command", path |-> path, raised |-> r.raised,
                   value |-> r.value]
        /\ UNCHANGED <<lastGenerate, mainVars, stepVars>>

Next ==
    \/ \E lang \in LangInputs : SetLang(lang)
    \/ \E v \in SyscallInputs : AssignSyscall(v)
    \/ \E a \in ArgvInputs : Generate(FacadeElf, a)
    \/ \E path \in PathInputs : WithCommand(path)

Spec == Init /\ [][Next]_vars

(***************************************************************************)
(* SpecMain: one run of main() on a command line.  A command line is a     *)
(* record of its options (None when an option is absent):                  *)
(*   help -h, t -t ARCH, s -s NUM, a -a, l -l LANG, c -c, p -p PATH,       *)
(*   w -w CHARS, file the ELF file named by the positional argument        *)
(*   [name, bytes, compressed].                                            *)
(***************************************************************************)
TargetInputs == {None, Some("libc"), Some("mips"), Some("m68k")}

NumInputs == {None, Some(999)}

LanguageInputs == {None, Some("pl"), Some("rb"), Some("lua")}

ArgvOptionInputs == {None, Some(" ")}

WrapInputs == {0, MaxWrap}

EiDataInputs == {1, 2}

MachineByteInputs == {0, 8, 62}

FileInputs ==
    { [name |-> "a.out", bytes |-> Header(d, b18, b19),
       compressed |-> <<120, 218, 3, 0, 0, 0, 0, 1>>] :
          d \in EiDataInputs, b18 \in MachineByteInputs, b19 \in MachineByteInputs }
    \cup
    { [name |-> "a.out", bytes |-> <<127, 69, 76, 70, 1, 1, 1>>,
       compressed |-> <<120, 218, 3, 0, 0, 0, 0, 1>>] }

CmdLines ==
    { c \in [help : BOOLEAN, t : TargetInputs, s : NumInputs, a : ArgvOptionInputs,
             l : LanguageInputs, c : BOOLEAN, p : PathInputs, w : WrapInputs,
             file : FileInputs] :
        c.help => /\ c.t = None /\ c.s = None /\ c.a = None /\ c.l = None
                  /\ ~c.c /\ c.p = None /\ c.w = 0
                  /\ c.file.bytes = Header(1, 62, 0) }

HelpText == "usage: fee.py [-h] ...\n"

UsageError == "usage: fee.py [-h] ...\nfee.py: error: ...\n"

Traceback == "Traceback (most recent call last): ...\n"

\* elf[:n] of a sequence of bytes
Prefix(b, n) == SubSeq(b, 1, IF Len(b) < n THEN Len(b) ELSE n)

\* Python truthiness of a value that is None or a str
truthy_str(v) == v # None /\ v # Some("")

InitMain ==
    /\ FacadeIdle /\ StepIdle
    /\ pc = "parse_args" /\ cmdline \in CmdLines
    /\ args = <<>> /\ argv = "" /\ elf = <<>>
    /\ out = "" /\ exc = "" /\ stdout = <<>> /\ stderr = <<>> /\ status = None

\* parser.parse_args(): -h prints the help to stderr and exits with status
\* 0 (patched_help_call); an ARCH that is no choice, or -t together with
\* -s, is a usage error, printed to stderr with exit status 2
main_parse_args ==
    /\ pc = "parse_args"
    /\ IF cmdline.help
       THEN /\ stderr' = Append(stderr, HelpText)
            /\ status' = Some(0)
            /\ pc' = "exited"
            /\ UNCHANGED args
       ELSE IF \/ (cmdline.t # None /\ Val(cmdline.t) \notin ArchitectureChoices)
               \/ (cmdline.t # None /\ cmdline.s # None)
       THEN /\ stderr' = Append(stderr, UsageError)
            /\ status' = Some(2)
            /\ pc' = "exited"
            /\ UNCHANGED args
       ELSE /\ args' = [path |-> cmdline.file,
                        target_architecture |->
                            IF cmdline.t = None THEN "autodetect" ELSE Val(cmdline.t),
                        syscall |-> cmdline.s,
                        argv |-> cmdline.a,
                        language |-> cmdline.l,
                        with_command |-> cmdline.c,
                        interpreter_path |-> cmdline.p,
                        wrap |-> cmdline.w,
                        compression_level |-> 9]
            /\ pc' = "setup"
            /\ UNCHANGED <<stderr, status>>
    /\ UNCHANGED <<cmdline, argv, elf, out, exc, stdout, facadeVars, stepVars>>

\* lines 350-365: the default argv, the note about -p, reading the file,
\* constructing and configuring the CodeGenerator
main_setup ==
    /\ pc = "setup"
    /\ argv' = IF truthy_str(args.argv) THEN Val(args.argv) ELSE args.path.name
    /\ stderr' = IF truthy_str(args.interpreter_path) /\ ~args.with_command
                 THEN Append(stderr, "note: '-p' flag meaningless without '-c'\n")
                 ELSE stderr
    /\ elf' = [bytes |-> args.path.bytes, compressed |-> args.path.compressed]
    /\ cg' = [CodeGenerator EXCEPT !.compression_level = args.compression_level,
                                   !.wrap = args.wrap]
    /\ pc' = "resolve"
    /\ UNCHANGED <<cmdline, args, out, exc, stdout, status, ret, lastGenerate,
                   stepVars>>

\* lines 367-376.  An exception of _get_e_machine is raised outside the try
\* statement: the interpreter prints a traceback to stderr and exits with
\* status 1.  (The assignment of the machine to args.target_architecture is
\* local to this step: the attribute is not read after line 372.)
main_resolve ==
    /\ pc = "resolve"
    /\ LET em == _get_e_machine(Prefix(elf.bytes, 20))
       IN  IF args.target_architecture = "autodetect" /\ em.raised # ""
           THEN /\ stderr' = Append(stderr, Traceback)
                /\ status' = Some(1)
                /\ pc' = "crashed"
                /\ UNCHANGED cg
           ELSE /\ cg' = [cg EXCEPT !.syscall =
                            IF args.target_architecture = "autodetect"
                            THEN syscall_numbers_get_machine(em.value)
                            ELSE IF args.target_architecture # "libc"
                            THEN syscall_numbers_get_token(args.target_architecture)
                            ELSE args.syscall]
                /\ pc' = "set_lang"
                /\ UNCHANGED <<stderr, status>>
    /\ UNCHANGED <<cmdline, args, argv, elf, out, exc, stdout, ret, lastGenerate,
                   stepVars>>

\* lines 379-380
main_set_lang ==
    /\ pc = "set_lang"
    /\ IF truthy_str(args.language)
       THEN LET r == set_lang(cg, Val(args.language))
            IN  /\ cg' = r.cg
                /\ exc' = r.raised
                /\ pc' = IF r.raised # "" THEN "except" ELSE "generate"
       ELSE /\ pc' = "generate"
            /\ UNCHANGED <<cg, exc>>
    /\ UNCHANGED <<cmdline, args, argv, elf, out, stdout, stderr, status, ret,
                   lastGenerate, stepVars>>

\* line 382
main_generate ==
    /\ pc = "generate"
    /\ LET r == generate(cg, elf, argv)
       IN  /\ cg' = r.cg
           /\ exc' = r.raised
           /\ out' = IF r.raised # "" THEN out ELSE r.value
           /\ pc' = IF r.raised # "" THEN "except" ELSE "with_command"
    /\ UNCHANGED <<cmdline, args, argv, elf, stdout, stderr, status, ret,
                   lastGenerate, stepVars>>

\* lines 383-384
main_with_command ==
    /\ pc = "with_command"
    /\ IF args.with_command
       THEN LET r == with_command(cg, args.interpreter_path)
            IN  /\ exc' = r.raised
                /\ out' = IF r.raised # "" THEN out ELSE r.value
                /\ pc' = IF r.raised # "" THEN "except" ELSE "print_out"
       ELSE /\ pc' = "print_out"
            /\ UNCHANGED <<out, exc>>
    /\ UNCHANGED <<cmdline, args, argv, elf, stdout, stderr, status, facadeVars,
                   stepVars>>

\* line 387: print_out(out)
main_print_out ==
    /\ pc = "print_out"
    /\ stdout' = Append(stdout, out)
    /\ pc' = "return"
    /\ UNCHANGED <<cmdline, args, argv, elf, out, exc, stderr, status, facadeVars,
                   stepVars>>

\* the except clause with print_out in place of print_err: the message goes
\* to stdout
main_except_to_stdout ==
    /\ pc = "except"
    /\ stdout' = stdout \o <<exc \o "\n", "Use --help for more information.\n">>
    /\ status' = Some(1)
    /\ pc' = "returned"
    /\ UNCHANGED <<cmdline, args, argv, elf, out, exc, stderr, facadeVars, stepVars>>

\* lines 388-391: the except clause
main_except ==
    /\ pc = "except"
    /\ stderr' = stderr \o <<exc \o "\n", "Use --help for more information.\n">>
    /\ status' = Some(1)
    /\ pc' = "returned"
    /\ UNCHANGED <<cmdline, args, argv, elf, out, exc, stdout, facadeVars, stepVars>>

\* line 393: return 0
main_return ==
    /\ pc = "return"
    /\ status' = Some(0)
    /\ pc' = "returned"
    /\ UNCHANGED <<cmdline, args, argv, elf, out, exc, stdout, stderr, facadeVars,
                   stepVars>>

NextMain ==
    \/ main_parse_args
    \/ main_setup
    \/ main_resolve
    \/ main_set_lang
    \/ main_generate
    \/ main_with_command
    \/ main_print_out
    \/ main_except
    \/ main_return

SpecMain == InitMain /\ [][NextMain]_vars

(***************************************************************************)
(* SpecAddElf and SpecCallElf: one emitter step applied to one input.      *)
(* The instance is a fresh one of the dialect, built by its constructor    *)
(* from a facade with a concrete syscall number.                           *)
(***************************************************************************)
ElfInputs == {[bytes |-> <<>>, compressed |-> z] : z \in CompressedStreams}

fresh_emitter(cls, wrap) ==
    emitter_init(cls, [CodeGenerator EXCEPT !.wrap = wrap, !.syscall = Some(319)]).self[1]

InitAddElf ==
    /\ FacadeIdle /\ MainIdle
    /\ input \in [cls : Dialects, wrap : 0..MaxWrap, elf : ElfInputs]
    /\ output = <<>>

apply_add_elf ==
    /\ input # <<>> /\ output = <<>>
    /\ output' = <<add_elf(fresh_emitter(input.cls, input.wrap), input.elf).output>>
    /\ UNCHANGED <<input, facadeVars, mainVars>>

NextAddElf == apply_add_elf

SpecAddElf == InitAddElf /\ [][NextAddElf]_vars

\* the characters the argument strings are made of: a plain character, the
\* space, the single quote, the backslash and a whitespace that is no space
ArgAlphabet == {"a", " ", "'", "\\", "\t"}

RECURSIVE StringsUpTo(_)
StringsUpTo(n) ==
    IF n = 0 THEN {""}
    ELSE LET shorter == StringsUpTo(n - 1)
         IN  shorter \cup {s \o c : s \in {x \in shorter : Len(x) = n - 1},
                                    c \in ArgAlphabet}

InitCallElf ==
    /\ FacadeIdle /\ MainIdle
    /\ input \in [cls : Dialects, argv : StringsUpTo(MaxArgLen)]
    /\ output = <<>>

apply_add_call_elf ==
    /\ input # <<>> /\ output = <<>>
    /\ LET r == add_call_elf(fresh_emitter(input.cls, 0), input.argv)
       IN  output' = <<[raised |-> r.raised, text |-> r.self.output]>>
    /\ UNCHANGED <<input, facadeVars, mainVars>>

NextCallElf == apply_add_call_elf

SpecCallElf == InitCallElf /\ [][NextCallElf]_vars

(***************************************************************************)
(* Reading emitted text back, for the properties below.                    *)
(***************************************************************************)
startswith(s, prefix) ==
    Len(prefix) <= Len(s) /\ SubSeq(s, 1, Len(prefix)) = prefix

endswith(s, suffix) ==
    Len(suffix) <= Len(s) /\ SubSeq(s, Len(s) - Len(suffix) + 1, Len(s)) = suffix

contains(s, part) ==
    \E i \in 1..(Len(s) - Len(part) + 1) : SubSeq(s, i, i + Len(part) - 1) = part

\* the text between a prefix and a suffix, as Some(text), or None
between(s, prefix, suffix) ==
    IF /\ Len(prefix) + Len(suffix) <= Len(s)
       /\ startswith(s, prefix)
       /\ endswith(s, suffix)
    THEN Some(SubSeq(s, Len(prefix) + 1, Len(s) - Len(suffix)))
    ELSE None

\* s split at every occurrence of the character c
RECURSIVE split_at(_, _, _)
split_at(s, at, from) ==
    IF at = {} THEN <<SubSeq(s, from, Len(s))>>
    ELSE LET i == SetMin(at)
         IN  <<SubSeq(s, from, i - 1)>> \o split_at(s, at \ {i}, i + 1)

split_on(s, c) == split_at(s, {i \in 1..Len(s) : Char(s, i) = c}, 1)

RECURSIVE concat(_)
concat(parts) == IF Len(parts) = 0 THEN "" ELSE parts[1] \o concat(Tail(parts))

\* a body that may stand between two single quotes as it is: no quote, no
\* backslash, no line break
plain_body(body) ==
    \A i \in 1..Len(body) : Char(body, i) \notin {"'", "\\", "\n"}

(***************************************************************************)
(* The payload statement add_elf emits, read back as string literals.      *)
(***************************************************************************)
\* per dialect: what stands before and after the literals of the statement,
\* how a literal opens, and the concatenation operator that follows every
\* literal but the last
payload_frame(cls) ==
    CASE cls = "Python" ->
            [head |-> "c = base64.b64decode(\n",
             tail |-> "\n)\ne = zlib.decompress(c)\n", open |-> "b'", op |-> ""]
      [] cls = "Perl" ->
            [head |-> "$c = decode_base64(",
             tail |-> ");\n$e = uncompress($c);\n", open |-> "'", op |-> "."]
      [] cls = "Ruby" ->
            [head |-> "c = Base64.decode64(",
             tail |-> ")\ne = Zlib::Inflate.inflate(c)\n", open |-> "'", op |-> "+"]

\* the lines that hold the literals, as Some(lines), or None
payload_lines(text, cls) ==
    LET region == between(text, payload_frame(cls).head, payload_frame(cls).tail)
    IN  IF region = None THEN None ELSE Some(split_on(Val(region), "\n"))

\* the body of the literal that is line i of n, as Some(body), or None when
\* the line is no literal followed by what must follow it
payload_body(line, cls, last) ==
    between(line, payload_frame(cls).open,
            "'" \o (IF last THEN "" ELSE payload_frame(cls).op))

payload_well_formed(lines, cls) ==
    \A i \in 1..Len(lines) :
        LET body == payload_body(lines[i], cls, i = Len(lines))
        IN  body # None /\ plain_body(Val(body))

payload_bodies(lines, cls) ==
    [i \in 1..Len(lines) |-> Val(payload_body(lines[i], cls, i = Len(lines)))]

\* C5: for every dialect and every encoded payload, add_elf with wrap width
\* 0..3 emits the encoded payload as one unsplit literal, and with every
\* wrap width > 3 (4 included) it emits well-formed string literals, one per
\* line, whose concatenation is character for character the encoded payload.
C5_WrapWidthInvariant ==
    output # <<>> =>
        LET lines   == payload_lines(output[1], input.cls)
            payload == _prepare_elf(9, input.elf)
        IN  /\ lines # None
            /\ payload_well_formed(Val(lines), input.cls)
            /\ concat(payload_bodies(Val(lines), input.cls)) = payload
            /\ input.wrap <= 3 =>
                   \E i \in 1..Len(Val(lines)) :
                       /\ payload_bodies(Val(lines), input.cls)[i] = payload
                       /\ \A j \in 1..Len(Val(lines)) :
                              j # i => payload_bodies(Val(lines), input.cls)[j] = ""

(***************************************************************************)
(* The exec statement add_call_elf emits, read back as argument literals.  *)
(***************************************************************************)
\* the statement add_call_elf emits before the exec statement
path_statement(cls) ==
    CASE cls = "Python" -> "p = '/proc/self/fd/%d' % f\n"
      [] cls = "Perl"   -> "$p = \"/proc/self/fd/$f\";\n"
      [] cls = "Ruby"   -> "p = \"/proc/self/fd/#{f}\"\n"

\* the exec statement of the text add_call_elf emitted on a fresh instance
exec_statement(text, cls) == Val(between(text, path_statement(cls), ""))

\* a character no argument string of the model contains and no emitter
\* writes into an exec statement: it marks where a quote of argv was
QuoteMark == "q"

\* C8: in the exec statement of every dialect, every single quote that comes
\* from the argument string, argv[0] included, is emitted preceded by a
\* backslash: the statement is the one emitted for the same argument string
\* with a mark in place of each quote, with \' where each mark is.
C8_QuotesEscaped ==
    (output # <<>> /\ output[1].raised = "") =>
        LET marked == add_call_elf(fresh_emitter(input.cls, 0),
                                   replace(input.argv, "'", QuoteMark))
        IN  exec_statement(output[1].text, input.cls)
                = replace(exec_statement(marked.self.output, input.cls),
                          QuoteMark, "\\'")

\* the index of the quote that closes a literal whose body starts at j: a
\* backslash takes the next character with it; 0 when nothing closes it
RECURSIVE closing_quote(_, _)
closing_quote(s, j) ==
    IF j > Len(s) THEN 0
    ELSE IF Char(s, j) = "\\" THEN closing_quote(s, j + 2)
    ELSE IF Char(s, j) = "'" THEN j
    ELSE closing_quote(s, j + 1)

\* the string a single-quoted literal with this body denotes: \\ is a
\* backslash and \' a quote in the three dialects; of the other pairs the
\* model's alphabet can form, Python reads \a as the one character BEL,
\* and every other pair stands for its two characters
RECURSIVE literal_value(_, _)
literal_value(body, cls) ==
    IF Len(body) = 0 THEN ""
    ELSE IF Char(body, 1) = "\\" /\ Len(body) >= 2
    THEN (IF Char(body, 2) \in {"\\", "'"} THEN Char(body, 2)
          ELSE IF cls = "Python" /\ Char(body, 2) = "a" THEN "<BEL>"
          ELSE SubSeq(body, 1, 2))
             \o literal_value(SubSeq(body, 3, Len(body)), cls)
    ELSE Char(body, 1) \o literal_value(SubSeq(body, 2, Len(body)), cls)

\* s from index i on read as literals separated by ", ", to the end of s:
\* Some(their values in order), or None when s is no such list
RECURSIVE literal_list(_, _, _)
literal_list(s, i, cls) ==
    IF i > Len(s) \/ Char(s, i) # "'" THEN None
    ELSE LET j == closing_quote(s, i + 1)
         IN  IF j = 0 THEN None
             ELSE LET value == literal_value(SubSeq(s, i + 1, j - 1), cls)
                  IN  IF j = Len(s) THEN Some(<<value>>)
                      ELSE IF j + 2 <= Len(s) /\ SubSeq(s, j + 1, j + 2) = ", "
                      THEN LET more == literal_list(s, j + 3, cls)
                           IN  IF more = None THEN None
                               ELSE Some(<<value>> \o Val(more))
                      ELSE None

\* the argument vector an exec statement passes: Some(arguments), or None
\* when the statement is not the dialect's exec call on well-formed literals
\*   Python  os.execle(p, 'a', 'b', {})
\*   Perl    exec {$p} 'a', 'b';
\*   Ruby    exec([p, 'a'], 'b')
exec_arguments(stmt, cls) ==
    CASE cls = "Python" ->
            LET r == between(stmt, "os.execle(p, ", ", {})\n")
            IN  IF r = None THEN None ELSE literal_list(Val(r), 1, cls)
      [] cls = "Perl" ->
            LET r == between(stmt, "exec {$p} ", ";\n")
            IN  IF r = None THEN None ELSE literal_list(Val(r), 1, cls)
      [] cls = "Ruby" ->
            LET r == between(stmt, "exec([p, '", ")\n")
            IN  IF r = None THEN None
                ELSE LET t == Val(r)
                         j == closing_quote(t, 1)
                     IN  IF j = 0 \/ j + 1 > Len(t) \/ Char(t, j + 1) # "]" THEN None
                         ELSE LET argv0 == literal_value(SubSeq(t, 1, j - 1), cls)
                                  rest  == SubSeq(t, j + 2, Len(t))
                              IN  IF rest = "" THEN Some(<<argv0>>)
                                  ELSE IF ~startswith(rest, ", ") THEN None
                                  ELSE LET more == literal_list(rest, 3, cls)
                                       IN  IF more = None THEN None
                                           ELSE Some(<<argv0>> \o Val(more))

\* argv is N >= 1 non-empty tokens, free of spaces and quote characters,
\* joined by single spaces
token_vector(a) ==
    /\ \A i \in 1..Len(a) : Char(a, i) \notin {"'", "\""}
    /\ \A i \in 1..Len(split_on(a, " ")) : split_on(a, " ")[i] # ""

\* C9: for every dialect and every vector of N >= 1 non-empty tokens without
\* space or quote character, joined by single spaces, the exec statement
\* consists of exactly N well-formed single-quoted literals whose contents
\* are those tokens in order (in Python followed by the empty environment).
C9_ArgumentVectorRoundTrip ==
    (output # <<>> /\ token_vector(input.argv)) =>
        /\ output[1].raised = ""
        /\ exec_arguments(exec_statement(output[1].text, input.cls), input.cls)
               = Some(split_on(input.argv, " "))

(***************************************************************************)
(* Properties of a run of main() (SpecMain).                               *)
(***************************************************************************)
\* the statement that creates the descriptor by syscall number v
creation_call(cls, v) ==
    CASE cls = "Python" -> "f = s(" \o format(v) \o ", '', 1)\n"
      [] cls = "Perl"   -> "$f = syscall(" \o format(v) \o ", $n, 1);\n"
      [] cls = "Ruby"   -> "f = syscall(" \o format(v) \o ", n, 1)\n"

\* main() is past line 376: the syscall of the facade is resolved
Resolved == pc \in {"set_lang", "generate", "with_command", "print_out",
                    "return", "except", "returned"}

Finished == pc \in {"returned", "exited", "crashed"}

\* the run auto-detects the architecture and the header can be read
AutoDetects ==
    /\ args # <<>>
    /\ args.target_architecture = "autodetect"
    /\ _get_e_machine(Prefix(args.path.bytes, 20)).raised = ""

DetectedMachine == _get_e_machine(Prefix(args.path.bytes, 20)).value

MachineKeys == UNION {SyscallRows[i].machines : i \in DOMAIN SyscallRows}

\* C1: with -s N the resolved syscall is N unchanged, and the script that
\* generate returns creates the descriptor by syscall number N, whatever
\* the ELF header holds.
C1_ExplicitSyscallUnchanged ==
    (args # <<>> /\ args.syscall # None) =>
        /\ Resolved => cg.syscall = args.syscall
        /\ pc = "with_command" => contains(out, creation_call(cg._meta, args.syscall))

\* C2: with auto-detection, a machine identifier that is no key of the
\* syscall table makes the run fail in every dialect: nothing is written to
\* stdout and the exit status is non-zero.
C2_UnknownMachineFails ==
    (AutoDetects /\ DetectedMachine \notin MachineKeys) =>
        /\ stdout = <<>>
        /\ Finished => status # Some(0)

\* C3: for every row of the table with architecture tokens and machine
\* identifiers, auto-detecting a header that carries one of the row's
\* machine identifiers, in either byte order, resolves to the number that
\* every token of the row resolves to.
C3_AutoDetectMatchesToken ==
    (AutoDetects /\ Resolved) =>
        \A i \in DOMAIN SyscallRows :
            DetectedMachine \in SyscallRows[i].machines =>
                \A token \in SyscallRows[i].tokens :
                    cg.syscall = syscall_numbers_get_token(token)

\* what a successful run must have written: the script generate returns for
\* the facade, the file and the argument string of the run, all four steps
\* run, wrapped by with_command under -c
ExpectedOutput ==
    LET r == generate(cg, elf, argv)
    IN  IF args.with_command
        THEN with_command(r.cg, args.interpreter_path).value
        ELSE r.value

\* C7: stdout receives nothing or exactly one complete script (or wrapped
\* command): a successful run writes the output once and returns 0; a
\* failure of set_lang, generate or with_command writes a message to stderr
\* only, nothing to stdout, and returns a non-zero status.
C7_StdoutAllOrNothing ==
    /\ Len(stdout) <= 1
    /\ (pc = "returned" /\ exc = "") =>
           /\ status = Some(0)
           /\ Len(generate(cg, elf, argv).steps) = 4
           /\ stdout = <<ExpectedOutput>>
    /\ exc # "" =>
           /\ stdout = <<>>
           /\ pc = "returned" =>
                  /\ status = Some(1)
                  /\ \E i \in 1..Len(stderr) : stderr[i] = exc \o "\n"
    /\ pc \in {"exited", "crashed"} => stdout = <<>>

\* a run in which generate raised has returned
C7_FailedRunReturned ==
    /\ pc = "returned" /\ exc = PerlNoSyscall
    /\ stdout = <<>> /\ status = Some(1)

(***************************************************************************)
(* Properties of the facade under any sequence of calls (Spec).            *)
(***************************************************************************)
\* C4: when the facade's syscall is None, generate for the Perl and the Ruby
\* dialect raises before any generation step has run and returns no script;
\* generate for the Python dialect does not fail and emits a script that
\* binds the descriptor-creation function by its symbol name memfd_create.
C4_DialectCapabilityGating ==
    (lastGenerate # <<>> /\ lastGenerate[1].syscall = None) =>
        LET g == lastGenerate[1]
        IN  /\ g._meta = "Perl" =>
                   g.raised = PerlNoSyscall /\ g.steps = <<>> /\ g.value = ""
            /\ g._meta = "Ruby" =>
                   g.raised = RubyNoSyscall /\ g.steps = <<>> /\ g.value = ""
            /\ g._meta = "Python" =>
                   /\ g.raised \notin {PerlNoSyscall, RubyNoSyscall}
                   /\ g.raised = ""
                   /\ contains(g.value, "s = l.memfd_create\n")
                   /\ contains(g.value, "f = s('', 1)\n")

\* the Perl dialect has refused dynamic resolution
C4_PerlRefusedDynamic ==
    /\ lastGenerate # <<>>
    /\ lastGenerate[1].syscall = None
    /\ lastGenerate[1]._meta = "Perl"
    /\ lastGenerate[1].raised = PerlNoSyscall
    /\ ret.op = "generate"

\* the command that wraps a script of a dialect
wrapped(script, cls, path) ==
    HistoryPrefix \o emitter_with_command([cls |-> cls, output |-> script],
                         IF path = None THEN default_path(cls) ELSE Val(path))

\* C6: with_command returns a wrapped command only when the most recent
\* generate call returned successfully, and the command wraps exactly the
\* script that call returned; when no generate call was made, or the most
\* recent one raised, with_command raises 'Code not yet generated' and
\* surfaces no stale or partial script.
C6_WrapOnlyAfterSuccess ==
    ret.op = "with_command" =>
        IF lastGenerate # <<>> /\ lastGenerate[1].raised = ""
        THEN ret.raised = "" =>
                 ret.value = wrapped(lastGenerate[1].value, lastGenerate[1]._meta,
                                     ret.path)
        ELSE ret.raised = NotYetGenerated /\ ret.value = ""

\* argv holds at least one token
has_token(a) == split(a) # <<>>

\* C10: for every integer N assigned to CodeGenerator.syscall, 0 and
\* negative values included, generate succeeds for the three dialects and
\* the script creates the descriptor by syscall number N (Python through
\* s = l.syscall); only syscall = None selects dynamic resolution or the
\* 'cannot resolve the syscall' error.
C10_EveryIntegerBinds ==
    (lastGenerate # <<>> /\ lastGenerate[1].syscall # None
         /\ has_token(lastGenerate[1].argv)) =>
        LET g == lastGenerate[1]
        IN  /\ g.raised = ""
            /\ contains(g.value, creation_call(g._meta, g.syscall))
            /\ g._meta = "Python" => contains(g.value, "s = l.syscall\n")
            /\ ~contains(g.value, "memfd_create")

=============================================================================
